---- MODULE Spec2Model ----
(***************************************************************************)
(* corresponding-rs: the attribute macro derive_corresponding and the      *)
(* move_corresponding / From routines it generates.                        *)
(*                                                                         *)
(* The macro side is modelled on syn's view of the annotated module: a     *)
(* list of items, structs with attributes and fields, field types as type  *)
(* expressions.  The runtime side executes the generated statements on     *)
(* struct values.                                                          *)
(***************************************************************************)
EXTENDS Integers, Sequences, FiniteSets, TLC

\* The largest scalar a field holds (u8, u16, String and Box contents).
MaxVal == 1

-----------------------------------------------------------------------------
(* Rust's Option, used for Option<Ident>, Option<OptionType> and for the   *)
(* values of Option<T> fields.                                             *)
None == <<>>
Some(x) == <<x>>
is_some(o) == o # <<>>
unwrap(o) == o[1]

-----------------------------------------------------------------------------
(* syn::Type.  A Type::Path holds the segments of its path; every other    *)
(* kind of type (tuple, reference, ...) holds its element types.           *)
PathArgumentsNone == [kind |-> "None", args |-> <<>>]
AngleBracketed(args) == [kind |-> "AngleBracketed", args |-> args]
GenericArgumentType(ty) == [kind |-> "Type", ty |-> ty]
PathSegment(ident, arguments) == [ident |-> ident, arguments |-> arguments]
TypePath(segments) == [kind |-> "Path", segments |-> segments, elems |-> <<>>]
TypeTuple(elems) == [kind |-> "Tuple", segments |-> <<>>, elems |-> elems]

Plain(ident) == TypePath(<<PathSegment(ident, PathArgumentsNone)>>)
Generic(ident, ty) ==
    TypePath(<<PathSegment(ident, AngleBracketed(<<GenericArgumentType(ty)>>))>>)
\* std::option::Option<ty>, the same type as Option<ty> written by its full path
StdOption(ty) ==
    TypePath(<<PathSegment("std", PathArgumentsNone),
               PathSegment("option", PathArgumentsNone),
               PathSegment("Option", AngleBracketed(<<GenericArgumentType(ty)>>))>>)

U8 == Plain("u8")
U16 == Plain("u16")
StringTy == Plain("String")
OptionOf(ty) == Generic("Option", ty)
BoxOf(ty) == Generic("Box", ty)

-----------------------------------------------------------------------------
\* get_type that unwraps every Option around the inner type
RECURSIVE get_type_unwrapping_nested(_)
get_type_unwrapping_nested(ty) ==
    IF ty.kind = "Path" /\ Len(ty.segments) > 0
    THEN LET segment == ty.segments[1] IN
         IF segment.ident = "Option"
         THEN LET args == segment.arguments.args IN
              IF /\ segment.arguments.kind = "AngleBracketed"
                 /\ Len(args) > 0
                 /\ args[1].kind = "Type"
                 /\ args[1].ty.kind = "Path"
                 /\ Len(args[1].ty.segments) > 0
              THEN IF args[1].ty.segments[1].ident = "Option"
                   THEN IF is_some(get_type_unwrapping_nested(args[1].ty))
                        THEN Some([ident |-> unwrap(get_type_unwrapping_nested(args[1].ty)).ident,
                                   option |-> TRUE])
                        ELSE None
                   ELSE Some([ident |-> args[1].ty.segments[1].ident, option |-> TRUE])
              ELSE None
         ELSE Some([ident |-> segment.ident, option |-> FALSE])
    ELSE None

(* get_type: the OptionType {ident, option} of a field type, or None.      *)
get_type(ty) ==
    IF ty.kind = "Path" /\ Len(ty.segments) > 0
    THEN LET segment == ty.segments[1] IN
         IF segment.ident = "Option"
         THEN LET args == segment.arguments.args IN
              IF /\ segment.arguments.kind = "AngleBracketed"
                 /\ Len(args) > 0
                 /\ args[1].kind = "Type"
                 /\ args[1].ty.kind = "Path"
                 /\ Len(args[1].ty.segments) > 0
              THEN Some([ident |-> args[1].ty.segments[1].ident, option |-> TRUE])
              ELSE None
         ELSE Some([ident |-> segment.ident, option |-> FALSE])
    ELSE None

-----------------------------------------------------------------------------
(* proc_macro token trees and syn attributes, as has_default_derive reads  *)
(* them: #[derive(Default, Debug)] has the path derive and one Group whose *)
(* stream holds the Idents Default and Debug (and the Punct between them). *)
TokenIdent(ident) == [kind |-> "Ident", ident |-> ident, stream |-> <<>>]
TokenPunct == [kind |-> "Punct", ident |-> "", stream |-> <<>>]
TokenGroup(stream) == [kind |-> "Group", ident |-> "", stream |-> stream]
Attribute(segments, tokens) == [path |-> segments, tokens |-> tokens]

\* #[derive(Default, Debug, Clone, Eq, PartialEq)]  (tests/corresponding.rs:5)
DeriveDefaultDebug ==
    Attribute(<<"derive">>,
              <<TokenGroup(<<TokenIdent("Default"), TokenPunct, TokenIdent("Debug")>>)>>)
\* #[derive(Debug, Clone)]
DeriveDebugClone ==
    Attribute(<<"derive">>,
              <<TokenGroup(<<TokenIdent("Debug"), TokenPunct, TokenIdent("Clone")>>)>>)
\* #[educe(Default)], a helper attribute of another crate's derive
EduceDefault ==
    Attribute(<<"educe">>, <<TokenGroup(<<TokenIdent("Default")>>)>>)
\* #[allow(dead_code)]
AllowDeadCode ==
    Attribute(<<"allow">>, <<TokenGroup(<<TokenIdent("dead_code")>>)>>)

\* has_default_derive without the test of the attribute's path
has_default_derive_any_attribute(l) ==
    \E a \in 1..Len(l.attrs) :
        \E t \in 1..Len(l.attrs[a].tokens) :
            LET token_tree == l.attrs[a].tokens[t] IN
            /\ token_tree.kind = "Group"
            /\ \E u \in 1..Len(token_tree.stream) :
                   /\ token_tree.stream[u].kind = "Ident"
                   /\ token_tree.stream[u].ident = "Default"

(* has_default_derive: some attribute whose first path segment is derive   *)
(* has a Group holding, directly, the Ident Default.                       *)
has_default_derive(l) ==
    \E a \in 1..Len(l.attrs) :
        /\ Len(l.attrs[a].path) > 0
        /\ l.attrs[a].path[1] = "derive"
        /\ \E t \in 1..Len(l.attrs[a].tokens) :
               LET token_tree == l.attrs[a].tokens[t] IN
               /\ token_tree.kind = "Group"
               /\ \E u \in 1..Len(token_tree.stream) :
                      /\ token_tree.stream[u].kind = "Ident"
                      /\ token_tree.stream[u].ident = "Default"

-----------------------------------------------------------------------------
(* syn::Item.  A struct has attributes and fields; a field of a struct     *)
(* with named fields has ident Some(name), a field of a tuple struct has   *)
(* ident None.  Every other kind of item only has its name here.           *)
Field(ident, ty) == [ident |-> ident, ty |-> ty]
Named(name, ty) == Field(Some(name), ty)
Unnamed(ty) == Field(None, ty)
ItemStruct(ident, attrs, fields_kind, fields) ==
    [kind |-> "Struct", ident |-> ident, attrs |-> attrs,
     fields_kind |-> fields_kind, fields |-> fields,
     trait |-> "", l |-> "", r |-> "", statements |-> <<>>]
ItemOther(kind, ident) ==
    [kind |-> kind, ident |-> ident, attrs |-> <<>>,
     fields_kind |-> "", fields |-> <<>>,
     trait |-> "", l |-> "", r |-> "", statements |-> <<>>]
\* impl Trait<r> for l { ... }
ItemImpl(trait, l, r, statements) ==
    [kind |-> "Impl", ident |-> "", attrs |-> <<>>,
     fields_kind |-> "", fields |-> <<>>,
     trait |-> trait, l |-> l, r |-> r, statements |-> statements]

(* get_structs: the Item::Struct items, in order.                          *)
IsItemStruct(item) == item.kind = "Struct"
get_structs(items) == SelectSeq(items, IsItemStruct)

-----------------------------------------------------------------------------
(* generate_move_corresponding_impl.  The statement pushed for one pair of *)
(* fields, None when none is pushed:                                       *)
(*   Assign       self.f = rhs.f;                                          *)
(*   AssignSome   self.f = Some(rhs.f);                                    *)
(*   IfLetSome    if let Some(r) = rhs.f { self.f = r };                   *)
(*   IfIsSome     if rhs.f.is_some() { self.f = rhs.f };                   *)
Stmt(kind, l_field_ident, r_field_ident) ==
    [kind |-> kind, l_field_ident |-> l_field_ident, r_field_ident |-> r_field_ident]

statement_kind(l_option, r_option) ==
    CASE ~l_option /\ ~r_option -> "Assign"
      [] l_option /\ ~r_option -> "AssignSome"
      [] ~l_option /\ r_option -> "IfLetSome"
      [] l_option /\ r_option -> "IfIsSome"

\* field_statement without the comparison of the two types' idents
field_statement_by_name_only(l_field, r_field) ==
    LET l_type == get_type(l_field.ty)
        r_type == get_type(r_field.ty)
    IN  IF /\ is_some(l_type)
           /\ is_some(r_type)
           /\ l_field.ident = r_field.ident
        THEN Some(Stmt(statement_kind(unwrap(l_type).option, unwrap(r_type).option),
                       l_field.ident, r_field.ident))
        ELSE None

field_statement(l_field, r_field) ==
    LET l_type == get_type(l_field.ty)
        r_type == get_type(r_field.ty)
    IN  IF /\ is_some(l_type)
           /\ is_some(r_type)
           /\ l_field.ident = r_field.ident
           /\ unwrap(l_type).ident = unwrap(r_type).ident
        THEN Some(Stmt(statement_kind(unwrap(l_type).option, unwrap(r_type).option),
                       l_field.ident, r_field.ident))
        ELSE None

\* statements_loop with a break after the first statement pushed for l_field
RECURSIVE statements_loop_first_match(_, _, _, _)
statements_loop_first_match(l, r, k, statements) ==
    IF k > Len(l.fields) * Len(r.fields)
    THEN statements
    ELSE LET l_field == l.fields[((k - 1) \div Len(r.fields)) + 1]
             r_field == r.fields[((k - 1) % Len(r.fields)) + 1]
         IN  IF is_some(field_statement(l_field, r_field))
             THEN statements_loop_first_match(l, r,
                      (((k - 1) \div Len(r.fields)) + 1) * Len(r.fields) + 1,
                      statements \o field_statement(l_field, r_field))
             ELSE statements_loop_first_match(l, r, k + 1, statements)

\* for l_field in &l.fields { for r_field in &r.fields { ... } }
RECURSIVE statements_loop(_, _, _, _)
statements_loop(l, r, k, statements) ==
    IF k > Len(l.fields) * Len(r.fields)
    THEN statements
    ELSE LET l_field == l.fields[((k - 1) \div Len(r.fields)) + 1]
             r_field == r.fields[((k - 1) % Len(r.fields)) + 1]
         IN  statements_loop(l, r, k + 1, statements \o field_statement(l_field, r_field))

move_statements(l, r) == statements_loop(l, r, 1, <<>>)

\* parse_quote! panics on tokens that are no statement: with a field ident
\* of None the tokens are "self. = rhs. ;".
parse_quote_stmt_ok(stmt) == is_some(stmt.l_field_ident) /\ is_some(stmt.r_field_ident)

generate_move_corresponding_panics(l, r) ==
    \E s \in 1..Len(move_statements(l, r)) : ~parse_quote_stmt_ok(move_statements(l, r)[s])

generate_move_corresponding_impl(l, r) ==
    ItemImpl("MoveCorresponding", l.ident, r.ident, move_statements(l, r))

\* generate_from_impl whose body returns the default without the call
generate_from_impl_without_move(l, r) ==
    ItemImpl("From", l.ident, r.ident, <<"default">>)

(* generate_from_impl: impl From<r> for l, whose body is                   *)
(*   let mut lhs = l::default(); lhs.move_corresponding(rhs); lhs          *)
generate_from_impl(l, r) ==
    ItemImpl("From", l.ident, r.ident, <<"default", "move_corresponding">>)

-----------------------------------------------------------------------------
\* derive_loop without the test l != r
RECURSIVE derive_loop_with_self_pairs(_, _, _)
derive_loop_with_self_pairs(structs, k, items) ==
    IF k > Len(structs) * Len(structs)
    THEN [panicked |-> FALSE, items |-> items]
    ELSE LET l == structs[((k - 1) \div Len(structs)) + 1]
             r == structs[((k - 1) % Len(structs)) + 1]
         IN  IF generate_move_corresponding_panics(l, r)
             THEN [panicked |-> TRUE, items |-> items]
             ELSE derive_loop_with_self_pairs(structs, k + 1,
                      items \o <<generate_move_corresponding_impl(l, r)>>
                            \o (IF has_default_derive(l)
                                THEN <<generate_from_impl(l, r)>>
                                ELSE <<>>))

(* derive_corresponding: for l in &structs { for r in &structs { ... } }   *)
RECURSIVE derive_loop(_, _, _)
derive_loop(structs, k, items) ==
    IF k > Len(structs) * Len(structs)
    THEN [panicked |-> FALSE, items |-> items]
    ELSE LET l == structs[((k - 1) \div Len(structs)) + 1]
             r == structs[((k - 1) % Len(structs)) + 1]
         IN  IF l # r
             THEN IF generate_move_corresponding_panics(l, r)
                  THEN [panicked |-> TRUE, items |-> items]
                  ELSE derive_loop(structs, k + 1,
                           items \o <<generate_move_corresponding_impl(l, r)>>
                                 \o (IF has_default_derive(l)
                                     THEN <<generate_from_impl(l, r)>>
                                     ELSE <<>>))
             ELSE derive_loop(structs, k + 1, items)

\* input.content is None for a module declared without a body (mod m;)
ItemMod(content) == [content |-> content]

derive_corresponding(input) ==
    IF is_some(input.content)
    THEN LET items == unwrap(input.content)
             done == derive_loop(get_structs(items), 1, items)
         IN  [panicked |-> done.panicked, output |-> ItemMod(Some(done.items))]
    ELSE [panicked |-> FALSE, output |-> input]

-----------------------------------------------------------------------------
(* The Rust types behind the type expressions, as far as the generated     *)
(* code needs them: the values of a type, its Default value, and whether   *)
(* rustc accepts a generated statement.                                    *)

\* std::option::Option<T> names the type Option<T>
Resolve(ty) ==
    IF /\ ty.kind = "Path"
       /\ Len(ty.segments) = 3
       /\ ty.segments[1].ident = "std"
       /\ ty.segments[2].ident = "option"
    THEN TypePath(<<ty.segments[3]>>)
    ELSE ty

IsOption(ty) ==
    /\ Resolve(ty).kind = "Path"
    /\ Resolve(ty).segments[1].ident = "Option"
    /\ Resolve(ty).segments[1].arguments.kind = "AngleBracketed"

TypeArgument(ty) == Resolve(ty).segments[1].arguments.args[1].ty

RECURSIVE Values(_)
Values(ty) ==
    IF ty.kind = "Tuple"
    THEN {[tuple |-> <<v>>] : v \in Values(ty.elems[1])}
    ELSE IF IsOption(ty)
         THEN {None} \cup {Some(v) : v \in Values(TypeArgument(ty))}
         ELSE IF Resolve(ty).segments[1].ident = "Box"
              THEN Values(TypeArgument(ty))
              ELSE 0..MaxVal

RECURSIVE DefaultValue(_)
DefaultValue(ty) ==
    IF ty.kind = "Tuple"
    THEN [tuple |-> <<DefaultValue(ty.elems[1])>>]
    ELSE IF IsOption(ty)
         THEN None
         ELSE IF Resolve(ty).segments[1].ident = "Box"
              THEN DefaultValue(TypeArgument(ty))
              ELSE 0

\* A struct value holds one value per field, in declaration order.
RECURSIVE StructValuesUpTo(_, _)
StructValuesUpTo(fields, n) ==
    IF n = 0
    THEN {<<>>}
    ELSE {Append(vs, v) : vs \in StructValuesUpTo(fields, n - 1),
                          v \in Values(fields[n].ty)}

StructValues(st) == StructValuesUpTo(st.fields, Len(st.fields))
StructDefault(st) == [i \in 1..Len(st.fields) |-> DefaultValue(st.fields[i].ty)]

-----------------------------------------------------------------------------
(* The generated code at run time.                                         *)
StructNamed(items, name) ==
    CHOOSE st \in {items[i] : i \in 1..Len(items)} : st.kind = "Struct" /\ st.ident = name

FieldIndex(st, ident) == CHOOSE i \in 1..Len(st.fields) : st.fields[i].ident = ident

\* rustc's type check of one generated statement
StatementTypechecks(l, r, stmt) ==
    LET l_ty == l.fields[FieldIndex(l, stmt.l_field_ident)].ty
        r_ty == r.fields[FieldIndex(r, stmt.r_field_ident)].ty
    IN  CASE stmt.kind = "Assign" -> Resolve(l_ty) = Resolve(r_ty)
          [] stmt.kind = "AssignSome" ->
                IsOption(l_ty) /\ Resolve(TypeArgument(l_ty)) = Resolve(r_ty)
          [] stmt.kind = "IfLetSome" ->
                IsOption(r_ty) /\ Resolve(TypeArgument(r_ty)) = Resolve(l_ty)
          [] stmt.kind = "IfIsSome" ->
                IsOption(r_ty) /\ Resolve(l_ty) = Resolve(r_ty)

\* rustc rejects two fields of one name in a struct (E0124)
FieldNamesUnique(st) ==
    \A i, j \in 1..Len(st.fields) :
        (i # j /\ is_some(st.fields[i].ident)) => st.fields[i].ident # st.fields[j].ident

\* The expanded module compiles: the run-time operations exist only then.
Compiles(items) ==
    \A i \in 1..Len(items) :
        /\ items[i].kind = "Struct" => FieldNamesUnique(items[i])
        /\ (items[i].kind = "Impl" /\ items[i].trait = "MoveCorresponding") =>
               \A s \in 1..Len(items[i].statements) :
                   StatementTypechecks(StructNamed(items, items[i].l),
                                       StructNamed(items, items[i].r),
                                       items[i].statements[s])

\* exec_statement where self.f = Some(rhs.f) keeps a value already present
exec_statement_keeps_present(l, r, stmt, self_val, rhs_val) ==
    LET lf == FieldIndex(l, stmt.l_field_ident)
        rf == FieldIndex(r, stmt.r_field_ident)
    IN  CASE stmt.kind = "Assign" -> [self_val EXCEPT ![lf] = rhs_val[rf]]
          [] stmt.kind = "AssignSome" ->
                IF is_some(self_val[lf])
                THEN self_val
                ELSE [self_val EXCEPT ![lf] = Some(rhs_val[rf])]
          [] stmt.kind = "IfLetSome" ->
                IF is_some(rhs_val[rf])
                THEN [self_val EXCEPT ![lf] = unwrap(rhs_val[rf])]
                ELSE self_val
          [] stmt.kind = "IfIsSome" ->
                IF is_some(rhs_val[rf])
                THEN [self_val EXCEPT ![lf] = rhs_val[rf]]
                ELSE self_val

\* exec_statement where the source's None resets a plain target to its default
\* (self.f = rhs.f.unwrap_or_default())
exec_statement_unwrap_or_default(l, r, stmt, self_val, rhs_val) ==
    LET lf == FieldIndex(l, stmt.l_field_ident)
        rf == FieldIndex(r, stmt.r_field_ident)
    IN  CASE stmt.kind = "Assign" -> [self_val EXCEPT ![lf] = rhs_val[rf]]
          [] stmt.kind = "AssignSome" -> [self_val EXCEPT ![lf] = Some(rhs_val[rf])]
          [] stmt.kind = "IfLetSome" ->
                IF is_some(rhs_val[rf])
                THEN [self_val EXCEPT ![lf] = unwrap(rhs_val[rf])]
                ELSE [self_val EXCEPT ![lf] = DefaultValue(l.fields[lf].ty)]
          [] stmt.kind = "IfIsSome" ->
                IF is_some(rhs_val[rf])
                THEN [self_val EXCEPT ![lf] = rhs_val[rf]]
                ELSE self_val

\* exec_statement where Option to Option is the plain assignment self.f = rhs.f
exec_statement_assigns_none(l, r, stmt, self_val, rhs_val) ==
    LET lf == FieldIndex(l, stmt.l_field_ident)
        rf == FieldIndex(r, stmt.r_field_ident)
    IN  CASE stmt.kind = "Assign" -> [self_val EXCEPT ![lf] = rhs_val[rf]]
          [] stmt.kind = "AssignSome" -> [self_val EXCEPT ![lf] = Some(rhs_val[rf])]
          [] stmt.kind = "IfLetSome" ->
                IF is_some(rhs_val[rf])
                THEN [self_val EXCEPT ![lf] = unwrap(rhs_val[rf])]
                ELSE self_val
          [] stmt.kind = "IfIsSome" -> [self_val EXCEPT ![lf] = rhs_val[rf]]

\* One generated statement, run on the target's and the source's values.
exec_statement(l, r, stmt, self_val, rhs_val) ==
    LET lf == FieldIndex(l, stmt.l_field_ident)
        rf == FieldIndex(r, stmt.r_field_ident)
    IN  CASE stmt.kind = "Assign" -> [self_val EXCEPT ![lf] = rhs_val[rf]]
          [] stmt.kind = "AssignSome" -> [self_val EXCEPT ![lf] = Some(rhs_val[rf])]
          [] stmt.kind = "IfLetSome" ->
                IF is_some(rhs_val[rf])
                THEN [self_val EXCEPT ![lf] = unwrap(rhs_val[rf])]
                ELSE self_val
          [] stmt.kind = "IfIsSome" ->
                IF is_some(rhs_val[rf])
                THEN [self_val EXCEPT ![lf] = rhs_val[rf]]
                ELSE self_val

RECURSIVE exec_statements(_, _, _, _, _, _)
exec_statements(l, r, statements, k, self_val, rhs_val) ==
    IF k > Len(statements)
    THEN self_val
    ELSE exec_statements(l, r, statements, k + 1,
                         exec_statement(l, r, statements[k], self_val, rhs_val), rhs_val)

HasImpl(items, trait, l, r) ==
    \E i \in 1..Len(items) :
        items[i].kind = "Impl" /\ items[i].trait = trait /\ items[i].l = l /\ items[i].r = r

TheImpl(items, trait, l, r) ==
    items[CHOOSE i \in 1..Len(items) :
            items[i].kind = "Impl" /\ items[i].trait = trait
            /\ items[i].l = l /\ items[i].r = r]

\* move_corresponding that starts from the target's default, as from does
move_corresponding_on_default(items, l, r, self_val, rhs_val) ==
    exec_statements(StructNamed(items, l), StructNamed(items, r),
                    TheImpl(items, "MoveCorresponding", l, r).statements,
                    1, StructDefault(StructNamed(items, l)), rhs_val)

\* <l as MoveCorresponding<r>>::move_corresponding(&mut self, rhs)
move_corresponding(items, l, r, self_val, rhs_val) ==
    exec_statements(StructNamed(items, l), StructNamed(items, r),
                    TheImpl(items, "MoveCorresponding", l, r).statements,
                    1, self_val, rhs_val)

\* <l as From<r>>::from(rhs): the body generate_from_impl wrote, run in order
RECURSIVE exec_from(_, _, _, _, _, _, _)
exec_from(items, l, r, body, k, lhs_val, rhs_val) ==
    IF k > Len(body)
    THEN lhs_val
    ELSE exec_from(items, l, r, body, k + 1,
             CASE body[k] = "default" -> StructDefault(StructNamed(items, l))
               [] body[k] = "move_corresponding" ->
                     move_corresponding(items, l, r, lhs_val, rhs_val),
             rhs_val)

from(items, l, r, rhs_val) ==
    exec_from(items, l, r, TheImpl(items, "From", l, r).statements, 1, <<>>, rhs_val)

-----------------------------------------------------------------------------
(* The annotated modules the macro is run on.  The structs follow the      *)
(* test module (tests/corresponding.rs) and the documented example         *)
(* (corresponding-macros/src/lib.rs), cut to at most three fields each.    *)

\* #[derive(Default, ...)] struct A { b: u8, c: u8, e: Option<u8> }
StructA ==
    ItemStruct("A", <<DeriveDefaultDebug>>, "Named",
               <<Named("b", U8), Named("c", U8), Named("e", OptionOf(U8))>>)
\* struct B { b: u16, e: Option<u8>, n: u8 }
StructB ==
    ItemStruct("B", <<>>, "Named",
               <<Named("b", U16), Named("e", OptionOf(U8)), Named("n", U8)>>)
\* #[allow(dead_code)] #[derive(Default, ...)]
\* struct C { m: u8, x: Option<Option<u8>> }
StructC ==
    ItemStruct("C", <<AllowDeadCode, DeriveDefaultDebug>>, "Named",
               <<Named("m", U8), Named("x", OptionOf(OptionOf(U8)))>>)
\* #[derive(Debug, Clone)] struct D { x: Option<Option<u8>>, l: Box<u8>, t: (u8,) }
StructD ==
    ItemStruct("D", <<DeriveDebugClone>>, "Named",
               <<Named("x", OptionOf(OptionOf(U8))), Named("l", BoxOf(U8)),
                 Named("t", TypeTuple(<<U8>>))>>)
\* struct E { l: Box<u16>, k: String }
StructE ==
    ItemStruct("E", <<>>, "Named", <<Named("l", BoxOf(U16)), Named("k", StringTy)>>)
\* #[derive(Default, ...)] struct F { l: Box<u8>, k: String, t: (u8,) }
StructF ==
    ItemStruct("F", <<DeriveDefaultDebug>>, "Named",
               <<Named("l", BoxOf(U8)), Named("k", StringTy), Named("t", TypeTuple(<<U8>>))>>)
\* #[derive(Default, ...)] struct S { o: std::option::Option<u8>, k: String }
StructS ==
    ItemStruct("S", <<DeriveDefaultDebug>>, "Named",
               <<Named("o", StdOption(U8)), Named("k", StringTy)>>)
\* struct R { o: std::option::Option<u8>, e: Option<u8> }
StructR ==
    ItemStruct("R", <<>>, "Named",
               <<Named("o", StdOption(U8)), Named("e", OptionOf(U8))>>)
\* #[derive(Debug, Clone)] #[educe(Default)] struct G { c: u8, e: u8 }
StructG ==
    ItemStruct("G", <<DeriveDebugClone, EduceDefault>>, "Named",
               <<Named("c", U8), Named("e", U8)>>)
\* struct P { c: Option<u8>, c: u8 }
StructP ==
    ItemStruct("P", <<>>, "Named", <<Named("c", OptionOf(U8)), Named("c", U8)>>)
\* #[derive(Default, ...)] struct T(u8);
StructT == ItemStruct("T", <<DeriveDefaultDebug>>, "Unnamed", <<Unnamed(U8)>>)
\* struct V(u16);
StructV == ItemStruct("V", <<>>, "Unnamed", <<Unnamed(U16)>>)
\* struct W(Option<u8>);
StructW == ItemStruct("W", <<>>, "Unnamed", <<Unnamed(OptionOf(U8))>>)
\* struct U;
StructU == ItemStruct("U", <<>>, "Unit", <<>>)
\* The documented example (corresponding-macros/src/lib.rs:36-50):
\* #[derive(Debug, Default)] struct A { a: u8, b: u8, c: u8 }
DocA ==
    ItemStruct("A", <<DeriveDefaultDebug>>, "Named",
               <<Named("a", U8), Named("b", U8), Named("c", U8)>>)
\* #[derive(Debug, Clone)] struct B { a: u8, b: Option<u8>, d: u8 }
DocB ==
    ItemStruct("B", <<DeriveDebugClone>>, "Named",
               <<Named("a", U8), Named("b", OptionOf(U8)), Named("d", U8)>>)
EnumN == ItemOther("Enum", "N")
FnH == ItemOther("Fn", "h")
ModInner == ItemOther("Mod", "inner")

Scopes ==
    { <<>>,
      <<StructA>>,
      <<DocA, DocB>>,
      <<EnumN, FnH>>,
      <<StructA, EnumN, StructB, FnH, ModInner>>,
      <<StructG, StructA, StructU>>,
      <<StructC, StructD>>,
      <<StructB, StructR>>,
      <<StructD, StructE>>,
      <<StructD, StructF>>,
      <<StructF, StructD, StructE>>,
      <<StructS, StructR>>,
      <<StructA, StructP>>,
      <<StructA, StructT>>,
      <<StructT, StructV, StructU>>,
      <<StructT, StructW>>,
      <<StructU, StructC, EnumN>> }

Inputs == {ItemMod(None)} \cup {ItemMod(Some(items)) : items \in Scopes}

-----------------------------------------------------------------------------
VARIABLES
    input,   \* the annotated module, as parsed
    pc,      \* "parsed", "expanded" or "panicked", then "compiled" or "rejected"
    output,  \* the module the macro returns
    op,      \* the last run-time operation: "", "new", "move_corresponding", "from"
    self,    \* the target struct value: its struct's name and its fields' values
    pre,     \* the target as it was before the last operation
    rhs      \* the source the last operation consumed

vars == <<input, pc, output, op, self, pre, rhs>>

NoValue == [ty |-> "", val |-> <<>>]
Value(ty, val) == [ty |-> ty, val |-> val]

Init ==
    /\ input \in Inputs
    /\ pc = "parsed"
    /\ output = ItemMod(None)
    /\ op = ""
    /\ self = NoValue
    /\ pre = NoValue
    /\ rhs = NoValue

\* The compiler expands #[derive_corresponding] on the module.
Expand ==
    /\ pc = "parsed"
    /\ LET done == derive_corresponding(input)
       IN  /\ pc' = IF done.panicked THEN "panicked" ELSE "expanded"
           /\ output' = IF done.panicked THEN output ELSE done.output
    /\ UNCHANGED <<input, op, self, pre, rhs>>

Items == IF is_some(output.content) THEN unwrap(output.content) ELSE <<>>
Structs == get_structs(Items)

\* rustc checks the expanded module.
Compile ==
    /\ pc = "expanded"
    /\ pc' = IF Compiles(Items) THEN "compiled" ELSE "rejected"
    /\ UNCHANGED <<input, output, op, self, pre, rhs>>

\* let mut a = A { ... };
NewOf(st, val) ==
    /\ pc = "compiled"
    /\ op = ""
    /\ op' = "new"
    /\ self' = Value(st.ident, val)
    /\ pre' = NoValue
    /\ rhs' = NoValue
    /\ UNCHANGED <<input, pc, output>>

\* let mut a: A = b.into();
FromOf(l, r, val) ==
    /\ pc = "compiled"
    /\ op = ""
    /\ HasImpl(Items, "From", l.ident, r.ident)
    /\ op' = "from"
    /\ pre' = NoValue
    /\ rhs' = Value(r.ident, val)
    /\ self' = Value(l.ident, from(Items, l.ident, r.ident, val))
    /\ UNCHANGED <<input, pc, output>>

\* a.move_corresponding(b);
MoveCorrespondingOf(r, val) ==
    /\ pc = "compiled"
    /\ op # ""
    /\ HasImpl(Items, "MoveCorresponding", self.ty, r.ident)
    /\ op' = "move_corresponding"
    /\ pre' = self
    /\ rhs' = Value(r.ident, val)
    /\ self' = Value(self.ty, move_corresponding(Items, self.ty, r.ident, self.val, val))
    /\ UNCHANGED <<input, pc, output>>

\* The program's operations, on any struct of the module and any value.
New ==
    \E i \in 1..Len(Structs) : \E val \in StructValues(Structs[i]) :
        NewOf(Structs[i], val)
From ==
    \E i, j \in 1..Len(Structs) : \E val \in StructValues(Structs[j]) :
        FromOf(Structs[i], Structs[j], val)
MoveCorresponding ==
    \E i \in 1..Len(Structs) : \E val \in StructValues(Structs[i]) :
        MoveCorrespondingOf(Structs[i], val)

Next ==
    \/ Expand
    \/ Compile
    \/ New
    \/ From
    \/ MoveCorresponding

Spec == Init /\ [][Next]_vars

-----------------------------------------------------------------------------
(* What the properties are stated over.                                    *)

\* The macro returned (it did not panic).
Expanded == pc \in {"expanded", "compiled", "rejected"}
InputItems == IF is_some(input.content) THEN unwrap(input.content) ELSE <<>>
\* The declarations of the scope the macro pairs up: its struct items.
Declarations == {i \in 1..Len(InputItems) : InputItems[i].kind = "Struct"}
\* The generated routines of one trait, as positions in the returned module.
Routines(trait) == {k \in 1..Len(Items) : Items[k].kind = "Impl" /\ Items[k].trait = trait}
RoutinesFor(trait, l, r) ==
    {k \in Routines(trait) : Items[k].l = l.ident /\ Items[k].r = r.ident}

\* The spec's matching of two fields: equal names, both types classify, equal base names.
Corresponds(lf, rf) ==
    /\ lf.ident = rf.ident
    /\ is_some(get_type(lf.ty))
    /\ is_some(get_type(rf.ty))
    /\ unwrap(get_type(lf.ty)).ident = unwrap(get_type(rf.ty)).ident
HasAction(k, lf, rf) ==
    \E s \in 1..Len(Items[k].statements) :
        /\ Items[k].statements[s].l_field_ident = lf.ident
        /\ Items[k].statements[s].r_field_ident = rf.ident
FieldIdents(st) == {st.fields[i].ident : i \in 1..Len(st.fields)}

-----------------------------------------------------------------------------
C2_ActionIffFieldsCorrespond ==
    Expanded =>
        \A k \in Routines("MoveCorresponding") :
            LET l == StructNamed(InputItems, Items[k].l)
                r == StructNamed(InputItems, Items[k].r)
            IN  /\ \A i \in 1..Len(l.fields), j \in 1..Len(r.fields) :
                       /\ HasAction(k, l.fields[i], r.fields[j])
                              <=> Corresponds(l.fields[i], r.fields[j])
                       /\ ({l.fields[i].ty, r.fields[j].ty} = {U8, U16}
                              \/ l.fields[i].ty.kind = "Tuple"
                              \/ r.fields[j].ty.kind = "Tuple")
                              => ~HasAction(k, l.fields[i], r.fields[j])
                /\ \A s \in 1..Len(Items[k].statements) :
                       /\ Items[k].statements[s].l_field_ident \in FieldIdents(l)
                       /\ Items[k].statements[s].r_field_ident \in FieldIdents(r)
                       /\ Items[k].statements[s].l_field_ident
                              = Items[k].statements[s].r_field_ident

\* The routine for (A, B): an action for e, none for b (u8 against u16),
\* none for c (only in A) and none for n (only in B).
C2_Witness ==
    /\ Expanded
    /\ \E k \in Routines("MoveCorresponding") :
           /\ StructNamed(InputItems, Items[k].l) = StructA
           /\ StructNamed(InputItems, Items[k].r) = StructB
           /\ Len(Items[k].statements) = 1
           /\ HasAction(k, Named("e", OptionOf(U8)), Named("e", OptionOf(U8)))
           /\ ~HasAction(k, Named("b", U8), Named("b", U16))

-----------------------------------------------------------------------------
(* At run time: self is the target after the call, pre the target          *)
(* before it, rhs the source.                                              *)
Moved == pc = "compiled" /\ op = "move_corresponding"
Target == StructNamed(Items, self.ty)
Source == StructNamed(Items, rhs.ty)
\* The matched field pairs of the call's routine, as <<target field, source field>>.
Matched ==
    {p \in (1..Len(Target.fields)) \X (1..Len(Source.fields)) :
        Corresponds(Target.fields[p[1]], Source.fields[p[2]])}
\* (target is optional, source is optional) of a matched pair
Shape(p) ==
    <<unwrap(get_type(Target.fields[p[1]].ty)).option,
      unwrap(get_type(Source.fields[p[2]].ty)).option>>

\* C3: after move_corresponding, a matched pair whose source is not optional
\* has overwritten the target: a plain target equals the source field, an
\* optional target is present and holds the source field.
C3_PlainSourceOverwrites ==
    Moved =>
        \A p \in Matched :
            /\ Shape(p) = <<FALSE, FALSE>> => self.val[p[1]] = rhs.val[p[2]]
            /\ Shape(p) = <<TRUE, FALSE>> =>
                   /\ is_some(self.val[p[1]])
                   /\ unwrap(self.val[p[1]]) = rhs.val[p[2]]

\* A call that overwrote a plain target holding another value and an
\* optional target holding another present value.
C3_Witness ==
    /\ Moved
    /\ \E p \in Matched :
           /\ Shape(p) = <<FALSE, FALSE>>
           /\ pre.val[p[1]] # rhs.val[p[2]]
           /\ self.val[p[1]] = rhs.val[p[2]]
    /\ \E p \in Matched :
           /\ Shape(p) = <<TRUE, FALSE>>
           /\ is_some(pre.val[p[1]])
           /\ unwrap(pre.val[p[1]]) # rhs.val[p[2]]
           /\ self.val[p[1]] = Some(rhs.val[p[2]])

\* C4: after move_corresponding, a matched pair with a plain target and an
\* optional source has left the target as it was when the source is absent,
\* and set it to the unwrapped source when it is present.
C4_OptionalSourcePlainTarget ==
    Moved =>
        \A p \in Matched :
            Shape(p) = <<FALSE, TRUE>> =>
                IF is_some(rhs.val[p[2]])
                THEN self.val[p[1]] = unwrap(rhs.val[p[2]])
                ELSE self.val[p[1]] = pre.val[p[1]]

\* A call whose source field was absent and whose target kept a value that
\* is not its type's default.
C4_Witness ==
    /\ Moved
    /\ \E p \in Matched :
           /\ Shape(p) = <<FALSE, TRUE>>
           /\ rhs.val[p[2]] = None
           /\ pre.val[p[1]] # DefaultValue(Target.fields[p[1]].ty)
           /\ self.val[p[1]] = pre.val[p[1]]

\* C5: after move_corresponding, a matched pair with an optional target and
\* an optional source has left the target as it was when the source is
\* absent, and made it equal to the source when it is present.
C5_OptionalSourceOptionalTarget ==
    Moved =>
        \A p \in Matched :
            Shape(p) = <<TRUE, TRUE>> =>
                IF is_some(rhs.val[p[2]])
                THEN self.val[p[1]] = rhs.val[p[2]]
                ELSE self.val[p[1]] = pre.val[p[1]]

\* A call whose source field was absent and whose target kept its present value.
C5_Witness ==
    /\ Moved
    /\ \E p \in Matched :
           /\ Shape(p) = <<TRUE, TRUE>>
           /\ rhs.val[p[2]] = None
           /\ is_some(pre.val[p[1]])
           /\ self.val[p[1]] = pre.val[p[1]]

\* C9: move_corresponding leaves every field of the target that has no
\* action in the routine of the pair as it was before the call.
C9_UnmatchedFieldsUnchanged ==
    Moved =>
        \A i \in 1..Len(Target.fields) :
            (~\E j \in 1..Len(Source.fields) : <<i, j>> \in Matched)
                => self.val[i] = pre.val[i]

\* a.move_corresponding(b) with A {b: u8, c: u8, e: Option<u8>} and
\* B {b: u16, e: Option<u8>, n: u8}: b (u8 against u16) and c (only in A)
\* kept values that differ from the source's, while e was assigned.
C9_Witness ==
    /\ Moved
    /\ Target = StructA
    /\ Source = StructB
    /\ pre.val[1] # rhs.val[1]
    /\ self.val[1] = pre.val[1]
    /\ pre.val[2] # rhs.val[3]
    /\ pre.val[2] # DefaultValue(U8)
    /\ self.val[2] = pre.val[2]
    /\ self.val[3] # pre.val[3]
    /\ self.val[3] = rhs.val[2]

-----------------------------------------------------------------------------
\* C6: there is no way of setting an Option to None by move_corresponding:
\* a field of the target whose type is Option<T> and that is present before
\* a call is present after it.
C6_PresentStaysPresent ==
    Moved =>
        \A i \in 1..Len(Target.fields) :
            (IsOption(Target.fields[i].ty) /\ is_some(pre.val[i])) => is_some(self.val[i])

\* The declaration carries a derive marker naming Default: an attribute
\* #[derive(...)] with Default among the names it lists.
DerivesDefault(st) ==
    \E a \in 1..Len(st.attrs) :
        /\ st.attrs[a].path = <<"derive">>
        /\ \E t \in 1..Len(st.attrs[a].tokens) :
               TokenIdent("Default") \in
                   {st.attrs[a].tokens[t].stream[u] :
                       u \in 1..Len(st.attrs[a].tokens[t].stream)}

\* C7: once the macro has returned, the module holds a From routine for an
\* ordered pair (L, R) of distinct declarations exactly when L carries a
\* derive marker naming Default (one routine then), whatever R derives, and
\* none for a self-pair; with A deriving Default and B not, From<B> for A
\* exists, From<A> for B does not, and move_corresponding exists both ways.
C7_FromIffTargetDerivesDefault ==
    Expanded =>
        /\ \A i, j \in Declarations :
               Cardinality(RoutinesFor("From", InputItems[i], InputItems[j]))
                   = IF i # j /\ DerivesDefault(InputItems[i]) THEN 1 ELSE 0
        /\ \A i, j \in Declarations :
               (InputItems[i] = StructA /\ InputItems[j] = StructB) =>
                   /\ RoutinesFor("From", StructA, StructB) # {}
                   /\ RoutinesFor("From", StructB, StructA) = {}
                   /\ RoutinesFor("MoveCorresponding", StructA, StructB) # {}
                   /\ RoutinesFor("MoveCorresponding", StructB, StructA) # {}

\* Two expanded scopes: A derives Default and B does not; G carries
\* #[educe(Default)], which is no derive marker, and gets no From routine.
C7_Witness ==
    /\ Expanded
    /\ \E i, j \in Declarations :
           \/ /\ InputItems[i] = StructA
              /\ InputItems[j] = StructB
              /\ RoutinesFor("From", StructA, StructB) # {}
              /\ RoutinesFor("From", StructB, StructA) = {}
           \/ /\ InputItems[i] = StructG
              /\ InputItems[j] = StructA
              /\ RoutinesFor("From", StructG, StructA) = {}
              /\ RoutinesFor("From", StructA, StructG) # {}

Converted == pc = "compiled" /\ op = "from"

\* C8: L::from(r) is L's default instance after move_corresponding(default, r):
\* a field of L with no action for (L, R), and a conditionally assigned field
\* whose source is absent, holds its default value; every other field holds
\* what its action assigns.
C8_FromIsMoveOnDefault ==
    Converted =>
        /\ self.val = move_corresponding(Items, self.ty, rhs.ty,
                                         StructDefault(Target), rhs.val)
        /\ \A i \in 1..Len(Target.fields) :
               (~\E j \in 1..Len(Source.fields) : <<i, j>> \in Matched)
                   => self.val[i] = DefaultValue(Target.fields[i].ty)
        /\ \A p \in Matched :
               (Shape(p)[2] /\ rhs.val[p[2]] = None)
                   => self.val[p[1]] = DefaultValue(Target.fields[p[1]].ty)
        /\ \A p \in Matched :
               (~Shape(p)[2] \/ is_some(rhs.val[p[2]]))
                   => self.val[p[1]] =
                          CASE Shape(p) = <<FALSE, FALSE>> -> rhs.val[p[2]]
                            [] Shape(p) = <<TRUE, FALSE>> -> Some(rhs.val[p[2]])
                            [] Shape(p) = <<FALSE, TRUE>> -> unwrap(rhs.val[p[2]])
                            [] Shape(p) = <<TRUE, TRUE>> -> rhs.val[p[2]]

\* A::from(b) with b.e present: e is taken from b, b (u8 against u16, the
\* source's value not the default) and c (only in A) hold the default.
C8_Witness ==
    /\ Converted
    /\ Target = StructA
    /\ Source = StructB
    /\ is_some(rhs.val[2])
    /\ self.val[3] = rhs.val[2]
    /\ rhs.val[1] # DefaultValue(U16)
    /\ self.val[1] = DefaultValue(U8)
    /\ self.val[2] = DefaultValue(U8)

\* C10: Option<Option<u8>> classifies as ident Option with option = true;
\* two fields of that type and one name get the Option-to-Option statement,
\* and the target is assigned exactly when the source's outer value is
\* present, also when that value is Some(None).
C10_NestedOptionOuterOnly ==
    /\ get_type(OptionOf(OptionOf(U8))) = Some([ident |-> "Option", option |-> TRUE])
    /\ Expanded =>
           \A k \in Routines("MoveCorresponding") :
               \A s \in 1..Len(Items[k].statements) :
                   LET l == StructNamed(InputItems, Items[k].l)
                       r == StructNamed(InputItems, Items[k].r)
                       stmt == Items[k].statements[s]
                   IN  \A i \in 1..Len(l.fields), j \in 1..Len(r.fields) :
                           ( /\ l.fields[i] = Field(stmt.l_field_ident, OptionOf(OptionOf(U8)))
                             /\ r.fields[j] = Field(stmt.r_field_ident, OptionOf(OptionOf(U8))) )
                               => stmt.kind = "IfIsSome"
    /\ Moved =>
           \A p \in Matched :
               ( /\ Target.fields[p[1]].ty = OptionOf(OptionOf(U8))
                 /\ Source.fields[p[2]].ty = OptionOf(OptionOf(U8)) )
                   => self.val[p[1]] = IF is_some(rhs.val[p[2]])
                                       THEN rhs.val[p[2]]
                                       ELSE pre.val[p[1]]

\* The source field is Some(None): the target, Some(Some(v)) before, is Some(None).
C10_Witness ==
    /\ Moved
    /\ \E p \in Matched :
           /\ Target.fields[p[1]].ty = OptionOf(OptionOf(U8))
           /\ Source.fields[p[2]].ty = OptionOf(OptionOf(U8))
           /\ rhs.val[p[2]] = Some(None)
           /\ is_some(pre.val[p[1]])
           /\ is_some(unwrap(pre.val[p[1]]))
           /\ self.val[p[1]] = Some(None)

-----------------------------------------------------------------------------
\* The declarations of the scope that are records with named fields.
NamedRecords ==
    {i \in Declarations : InputItems[i].fields_kind = "Named"}

\* C11: only declarations shaped as a record with named fields are
\* candidates: once the macro has returned, every generated routine
\* (move_corresponding or From) has a record with named fields as its target
\* and as its source, never a tuple-like or field-less struct, an enum, a
\* function or a nested module.
C11_OnlyNamedFieldRecords ==
    Expanded =>
        \A k \in Routines("MoveCorresponding") \cup Routines("From") :
            /\ \E i \in NamedRecords : InputItems[i].ident = Items[k].l
            /\ \E i \in NamedRecords : InputItems[i].ident = Items[k].r

-----------------------------------------------------------------------------
\* Two type expressions name the same type.
SameType(a, b) == Resolve(a) = Resolve(b)
\* The same type T, or T and Option<T>, or Option<T> twice.
SameTypeOrOptionOf(l_ty, r_ty) ==
    \/ SameType(l_ty, r_ty)
    \/ IsOption(l_ty) /\ SameType(TypeArgument(l_ty), r_ty)
    \/ IsOption(r_ty) /\ SameType(TypeArgument(r_ty), l_ty)

\* C12: only fields with the same name and type are copied, T and Option<T>
\* counting as corresponding: the routine for (L, R) has an action for a
\* field pair only when the two declared types are the same type T, or T and
\* Option<T>, or both Option<T>; Box<u8> against Box<u16> gets no action.
C12_ActionOnlyForSameType ==
    Expanded =>
        \A k \in Routines("MoveCorresponding") :
            LET l == StructNamed(InputItems, Items[k].l)
                r == StructNamed(InputItems, Items[k].r)
            IN  \A i \in 1..Len(l.fields), j \in 1..Len(r.fields) :
                    /\ HasAction(k, l.fields[i], r.fields[j])
                           => SameTypeOrOptionOf(l.fields[i].ty, r.fields[j].ty)
                    /\ {l.fields[i].ty, r.fields[j].ty} = {BoxOf(U8), BoxOf(U16)}
                           => ~HasAction(k, l.fields[i], r.fields[j])

-----------------------------------------------------------------------------
\* The matching field pairs of two declarations, as <<position in l, position in r>>.
MatchingPairs(l, r) ==
    {p \in (1..Len(l.fields)) \X (1..Len(r.fields)) :
        Corresponds(l.fields[p[1]], r.fields[p[2]])}
\* For every field of l the first field of r, in declared order, that matches it.
FirstMatchingPairs(l, r) ==
    {p \in MatchingPairs(l, r) :
        \A j \in 1..(p[2] - 1) : <<p[1], j>> \notin MatchingPairs(l, r)}
\* The place of a pair among pairs, by l's field order and then r's.
Rank(p, pairs) ==
    Cardinality({q \in pairs : q[1] < p[1] \/ (q[1] = p[1] /\ q[2] <= p[2])})
\* The body is one action for every pair of pairs, in that order.
BodyIs(k, l, r, pairs) ==
    /\ Len(Items[k].statements) = Cardinality(pairs)
    /\ \A p \in pairs :
           LET stmt == Items[k].statements[Rank(p, pairs)]
           IN  /\ stmt.l_field_ident = l.fields[p[1]].ident
               /\ stmt.r_field_ident = r.fields[p[2]].ident
               /\ stmt.kind = statement_kind(unwrap(get_type(l.fields[p[1]].ty)).option,
                                             unwrap(get_type(r.fields[p[2]].ty)).option)
FieldNamesDistinct(st) == Cardinality(FieldIdents(st)) = Len(st.fields)

\* C13 as stated: in the routine for (L, R) each field of L gets at most one
\* action, for the first field of R in declared order that matches it, the
\* scan of R stopping there; the body has at most |L.fields| actions, in L's
\* field declaration order.
C13_FirstMatchOnly ==
    Expanded =>
        \A k \in Routines("MoveCorresponding") :
            LET l == StructNamed(InputItems, Items[k].l)
                r == StructNamed(InputItems, Items[k].r)
            IN  /\ BodyIs(k, l, r, FirstMatchingPairs(l, r))
                /\ Len(Items[k].statements) <= Len(l.fields)

\* C13, amended: in the routine for (L, R) each field of L gets one action
\* for every field of R that matches it, the scan of R not stopping at the
\* first match; the actions are in L's field declaration order and, for one
\* field of L, in R's.  When R's field names are distinct each field of L
\* gets at most one action and the body has at most |L.fields| actions.
C13_OneActionPerMatchingPair ==
    Expanded =>
        \A k \in Routines("MoveCorresponding") :
            LET l == StructNamed(InputItems, Items[k].l)
                r == StructNamed(InputItems, Items[k].r)
            IN  /\ BodyIs(k, l, r, MatchingPairs(l, r))
                /\ FieldNamesDistinct(r) =>
                       /\ MatchingPairs(l, r) = FirstMatchingPairs(l, r)
                       /\ Len(Items[k].statements) <= Len(l.fields)

\* The routine for (A, P), where P declares c twice (Option<u8>, then u8):
\* two actions for A's one field c, in P's order.
C13_Witness ==
    /\ Expanded
    /\ \E k \in Routines("MoveCorresponding") :
           /\ StructNamed(InputItems, Items[k].l) = StructA
           /\ StructNamed(InputItems, Items[k].r) = StructP
           /\ Cardinality(FirstMatchingPairs(StructA, StructP)) = 1
           /\ Items[k].statements = <<Stmt("IfLetSome", Some("c"), Some("c")),
                                      Stmt("Assign", Some("c"), Some("c"))>>

====
